---- MODULE Spec2Model ----
(***************************************************************************)
(* Model of GEOMetaX/downloader.py: download_file,                         *)
(* fetch_chromatin_remodelers_and_synonyms and install_data.               *)
(*                                                                         *)
(* A Python string is a sequence of tokens (each token a TLA+ string), so  *)
(* that concatenation and ", ".join are real operations on sequences.      *)
(* A file is a record [exists, data]; the data of a downloaded file is its *)
(* byte sequence, the data of the CSV is its sequence of rows.             *)
(* The network is the environment: every GET draws its outcome (an         *)
(* exception, or a status with a body) nondeterministically.               *)
(* The target directory of an open() is taken to exist; install_data       *)
(* creates it before any write.                                            *)
(***************************************************************************)
EXTENDS Integers, Sequences, FiniteSets, TLC

VARIABLES
    dirs,            \* directories that exist under the data root
    fs,              \* file system: path -> [exists, data]
    pc,              \* position of the single thread of control
    ip,              \* install_data: index of the current statement, 0 outside a run
    trace,           \* history: the statements install_data has started in this run
    response,        \* download_file: the outcome of its requests.get (local)
    ret,             \* download_file: the value handed to the caller
    pre,             \* history: download_file: the destination as it was when the call began
    output_csv,      \* fetch: its parameter
    associations,    \* fetch: local
    idx,             \* fetch: position of the for loop in associations
    chromatin_data,  \* fetch: local accumulator
    details,         \* history: the synonyms value of each gene response received
    reqs,            \* history: URLs requested by the current fetch call
    fetch_status,    \* history: how the current fetch call ended
    lastOK,          \* history: per file, content of its most recent successful attempt
    producer         \* history: per file, status of the response whose body was written

vars == <<dirs, fs, pc, ip, trace, response, ret, pre, output_csv, associations,
          idx, chromatin_data, details, reqs, fetch_status, lastOK, producer>>

----------------------------------------------------------------------------
(* Bounds and input sets *)

\* longest associations list a gene-set response carries when fetch is called directly
MaxAssoc == 2
\* longest associations list a gene-set response carries inside an install_data run
InstallMaxAssoc == 1

HTTP_OK == 200

\* final status codes a GET may end with (redirects are followed by the client)
Statuses == {200, 201, 204, 206, 404, 500}

\* response bodies of the static files
Bodies == {<<"x">>, <<"y", "z">>}

\* network-level errors raised by requests.get
NetworkErrors == {"ConnectionError", "Timeout"}

Symbols == {<<"SMARCA4">>, <<"ARID1A">>}

\* values of the "synonyms" key of a gene response: when fetch is called directly,
\* and inside an install_data run (fewer, the run multiplies them with the five
\* downloaded files)
SynLists == {<< >>, << <<"SYN1">> >>, << <<"SYN1">>, <<"SYN2">> >>}
InstallSynLists == {<< >>, << <<"SYN1">>, <<"SYN2">> >>}

----------------------------------------------------------------------------
(* Files and directories *)

NoFile == [exists |-> FALSE, data |-> << >>]
Written(d) == [exists |-> TRUE, data |-> d]

get_data_dir == "data"

FACTOR_DIR == "unparsed_factor_data"
ONTOLOGY_DIR == "unparsed_ontology_data"
PARSED_FACTOR_DIR == "parsed_factor_data"
PARSED_ONTOLOGY_DIR == "parsed_ontology_data"

factor_urls == << "https://ftp.ncbi.nih.gov/gene/DATA/gene_info.gz",
                  "https://guolab.wchscu.cn/AnimalTFDB4_static/download/TF_list_final/Homo_sapiens_TF" >>
factor_filenames == << "gene_info.gz", "Homo_sapiens_TF.csv" >>

ontology_urls == << "https://ftp.expasy.org/databases/cellosaurus/cellosaurus.txt",
                    "https://github.com/EBISPOT/efo/releases/download/current/efo.owl",
                    "http://purl.obolibrary.org/obo/uberon/uberon-full.json" >>
ontology_filenames == << "cellosaurus.txt", "efo.owl", "uberon-full.json" >>

CSV_NAME == "chromatin_remodelers.csv"

Min(a, b) == IF a < b THEN a ELSE b

\* zip(urls, filenames) turned into the download_file calls of one for loop
DownloadCalls(urls, filenames, folder) ==
    [i \in 1..Min(Len(urls), Len(filenames)) |->
        [op |-> "download", url |-> urls[i], folder |-> folder, filename |-> filenames[i]]]

MakedirsCall(d) == [op |-> "makedirs", url |-> "", folder |-> d, filename |-> ""]

\* the statements of install_data, in program order
Program_FetchFirst ==
    << MakedirsCall(FACTOR_DIR), MakedirsCall(ONTOLOGY_DIR),
       MakedirsCall(PARSED_FACTOR_DIR), MakedirsCall(PARSED_ONTOLOGY_DIR) >>
    \o << [op |-> "fetch", url |-> "", folder |-> PARSED_FACTOR_DIR, filename |-> CSV_NAME] >>
    \o DownloadCalls(factor_urls, factor_filenames, FACTOR_DIR)
    \o DownloadCalls(ontology_urls, ontology_filenames, ONTOLOGY_DIR)

Program ==
    << MakedirsCall(FACTOR_DIR), MakedirsCall(ONTOLOGY_DIR),
       MakedirsCall(PARSED_FACTOR_DIR), MakedirsCall(PARSED_ONTOLOGY_DIR) >>
    \o DownloadCalls(factor_urls, factor_filenames, FACTOR_DIR)
    \o << [op |-> "fetch", url |-> "", folder |-> PARSED_FACTOR_DIR, filename |-> CSV_NAME] >>
    \o DownloadCalls(ontology_urls, ontology_filenames, ONTOLOGY_DIR)

PathOf(step) == <<step.folder, step.filename>>

Files == { PathOf(Program[i]) : i \in { j \in 1..Len(Program) : Program[j].op # "makedirs" } }
DownloadFiles == { PathOf(Program[i]) : i \in { j \in 1..Len(Program) : Program[j].op = "download" } }
CsvPath == <<PARSED_FACTOR_DIR, CSV_NAME>>

----------------------------------------------------------------------------
(* download_file *)

NoResponse == [kind |-> "none", exc |-> "", status |-> 0, body |-> << >>]
Raised(e) == [kind |-> "exc", exc |-> e, status |-> 0, body |-> << >>]
Answer(s, b) == [kind |-> "resp", exc |-> "", status |-> s, body |-> b]

\* what requests.get(url, allow_redirects=True) can end with
GetOutcomes == { Raised(e) : e \in NetworkErrors }
               \cup { Answer(s, b) : s \in Statuses, b \in Bodies }

\* the classes requests derives from requests.exceptions.RequestException
IsRequestException(e) == e \in {"ConnectionError", "Timeout", "HTTPError"}

\* except requests.exceptions.RequestException
DownloadCatches_TimeoutOnly(e) == e = "Timeout"
DownloadCatches(e) == IsRequestException(e)

\* if response.status_code == 200
StatusOk_Any2xx(status) == status \div 100 = 2
StatusOk(status) == status = HTTP_OK

\* open(file_path, "wb") followed by file.write(response.content)
OpenWbWrite_Append(old, content) == Written(old.data \o content)
OpenWbWrite(old, content) == Written(content)

\* the destination file after the body of download_file has run on outcome r
AfterDownload_OpenFirst(old, r) ==
    IF r.kind = "resp"
    THEN IF StatusOk(r.status) THEN OpenWbWrite(old, r.body) ELSE Written(<< >>)
    ELSE old
AfterDownload(old, r) ==
    IF r.kind = "resp" /\ StatusOk(r.status) THEN OpenWbWrite(old, r.body) ELSE old

\* download_file has no return statement
DownloadReturnValue(r) == "None"

----------------------------------------------------------------------------
(* fetch_chromatin_remodelers_and_synonyms: data and pure steps *)

base_url == <<"https://maayanlab.cloud/Harmonizome">>
chromatin_remodelers_url ==
    base_url \o <<"/api/1.0/gene_set/chromatin+remodeling/GO+Biological+Process+Annotations+2023">>

\* a response body: a JSON object in which the key looked up ("associations" or
\* "synonyms") is absent, or present with value val
JsonWithout == [has |-> FALSE, val |-> << >>]
JsonWith(v) == [has |-> TRUE, val |-> v]

\* associations[].gene.symbol and associations[].gene.href
Association(sym) == [gene |-> [symbol |-> sym, href |-> <<"/api/1.0/gene/">> \o sym]]

AssocLists(n) ==
    UNION { { [i \in 1..k |-> Association(f[i])] : f \in [1..k -> Symbols] } : k \in 0..n }

GeneSetBodies(n) == {JsonWithout} \cup { JsonWith(a) : a \in AssocLists(n) }
GeneBodies(lists) == {JsonWithout} \cup { JsonWith(l) : l \in lists }

\* what requests.get(url) can end with when the server answers with one of bodies
ApiOutcomes(bodies) == { Raised(e) : e \in NetworkErrors }
                       \cup { Answer(s, b) : s \in Statuses, b \in bodies }

\* response.raise_for_status() raises HTTPError for 4xx and 5xx
RaisesForStatus(status) == 400 <= status /\ status < 600

\* the exception raised by requests.get or raise_for_status on outcome r, "" if none
RequestFailure(r) ==
    IF r.kind = "exc" THEN r.exc
    ELSE IF RaisesForStatus(r.status) THEN "HTTPError"
    ELSE ""

\* every exception class of the model derives from Exception
IsException(e) == e \in {"ConnectionError", "Timeout", "HTTPError"}

\* except requests.exceptions.RequestException ... except Exception
FetchCatches_Nothing(e) == FALSE
FetchCatches(e) == IsRequestException(e) \/ IsException(e)

\* both requests sit inside the one try block: a failed gene request leaves the loop
GeneFailureAborts_Isolated == FALSE
GeneFailureAborts == TRUE

\* dict.get(key, [])
DictGet(j) == IF j.has THEN j.val ELSE << >>

\* sep.join(list)
RECURSIVE Join_NoSeparator(_, _)
Join_NoSeparator(sep, list) ==
    IF list = << >> THEN << >>
    ELSE Head(list) \o Join_NoSeparator(sep, Tail(list))
RECURSIVE Join(_, _)
Join(sep, list) ==
    IF list = << >> THEN << >>
    ELSE IF Len(list) = 1 THEN Head(list)
    ELSE Head(list) \o sep \o Join(sep, Tail(list))

\* ", ".join(synonyms) if synonyms else ""
SynonymsField(synonyms) ==
    IF synonyms # << >> THEN Join(<<", ">>, synonyms) ELSE << >>

\* the dict appended to chromatin_data for one gene
Record(gene_symbol, synonyms) ==
    [chromatin_remodeler |-> gene_symbol, synonyms |-> SynonymsField(synonyms)]

fieldnames == << <<"chromatin_remodeler">>, <<"synonyms">> >>

\* writer.writeheader() then writer.writerows(chromatin_data)
CsvRows(data) ==
    << fieldnames >>
    \o [i \in 1..Len(data) |-> << data[i].chromatin_remodeler, data[i].synonyms >>]

\* open(output_csv, mode="w") followed by the writer calls
OpenWWrite(old, rows) == Written(rows)

\* the CSV after an except clause has run: the handlers only print
CsvAfterAbort_Partial(old, data) == Written(CsvRows(data))
CsvAfterAbort(old, data) == old

\* os.makedirs(..., exist_ok=True)
ExistOk_False == FALSE
ExistOk == TRUE

----------------------------------------------------------------------------
(* State machine *)

AllDirs == {get_data_dir, FACTOR_DIR, ONTOLOGY_DIR, PARSED_FACTOR_DIR, PARSED_ONTOLOGY_DIR}

installVars == <<ip, trace>>
downloadVars == <<response, ret>>
fetchVars == <<output_csv, associations, idx, chromatin_data, details, reqs, fetch_status>>

Init ==
    /\ dirs = {}
    /\ fs = [f \in Files |-> NoFile]
    /\ pc = "idle"
    /\ ip = 0
    /\ trace = << >>
    /\ response = NoResponse
    /\ ret = ""
    /\ pre = NoFile
    /\ output_csv = << >>
    /\ associations = << >>
    /\ idx = 0
    /\ chromatin_data = << >>
    /\ details = << >>
    /\ reqs = << >>
    /\ fetch_status = ""
    /\ lastOK = [f \in Files |-> NoFile]
    /\ producer = [f \in Files |-> 0]

\* fetch called on its own, the directories being in place
InitFetch ==
    /\ dirs = AllDirs
    /\ fs = [f \in Files |-> NoFile]
    /\ pc = "idle"
    /\ ip = 0
    /\ trace = << >>
    /\ response = NoResponse
    /\ ret = ""
    /\ pre = NoFile
    /\ output_csv = << >>
    /\ associations = << >>
    /\ idx = 0
    /\ chromatin_data = << >>
    /\ details = << >>
    /\ reqs = << >>
    /\ fetch_status = ""
    /\ lastOK = [f \in Files |-> NoFile]
    /\ producer = [f \in Files |-> 0]

AtStatement(op) == pc = "install" /\ ip \in 1..Len(Program) /\ Program[ip].op = op

\* install_data is entered (the program is run, or run again)
StartInstall ==
    /\ pc \in {"idle", "done"}
    /\ pc' = "install"
    /\ ip' = 1
    /\ trace' = << >>
    /\ UNCHANGED <<dirs, fs, pre, lastOK, producer, downloadVars, fetchVars>>

\* one os.makedirs(data_dir / d, exist_ok=True): parents are created as needed
Makedirs ==
    /\ AtStatement("makedirs")
    /\ trace' = Append(trace, Program[ip])
    /\ IF Program[ip].folder \in dirs /\ ~ExistOk
       THEN /\ pc' = "crashed"      \* FileExistsError leaves install_data
            /\ UNCHANGED <<dirs, ip>>
       ELSE /\ dirs' = dirs \cup {get_data_dir, Program[ip].folder}
            /\ ip' = ip + 1
            /\ pc' = pc
    /\ UNCHANGED <<fs, pre, lastOK, producer, downloadVars, fetchVars>>

\* one download_file(url, folder, filename) call, up to its last statement
DownloadFile ==
    /\ AtStatement("download")
    /\ trace' = Append(trace, Program[ip])
    /\ \E r \in GetOutcomes :
         LET file_path == PathOf(Program[ip]) IN
         /\ response' = r
         /\ pre' = fs[file_path]
         /\ IF r.kind = "exc" /\ ~DownloadCatches(r.exc)
            THEN /\ pc' = "crashed"     \* the exception leaves download_file
                 /\ UNCHANGED <<fs, ret, lastOK, producer>>
            ELSE /\ pc' = "download_end"
                 /\ fs' = [fs EXCEPT ![file_path] = AfterDownload(@, r)]
                 /\ ret' = DownloadReturnValue(r)
                 /\ lastOK' = IF r.kind = "resp" /\ r.status = 200
                              THEN [lastOK EXCEPT ![file_path] = Written(r.body)]
                              ELSE lastOK
                 /\ producer' = IF AfterDownload(NoFile, r).exists
                                THEN [producer EXCEPT ![file_path] = r.status]
                                ELSE producer
    /\ UNCHANGED <<dirs, ip, fetchVars>>

\* download_file returns to the for loop of install_data; its locals are gone
DownloadReturn ==
    /\ pc = "download_end"
    /\ pc' = "install"
    /\ ip' = ip + 1
    /\ response' = NoResponse
    /\ ret' = ""
    /\ pre' = NoFile
    /\ UNCHANGED <<dirs, fs, trace, lastOK, producer, fetchVars>>

\* an exception e raised inside the try block of fetch(path)
Abort(path, e) ==
    IF FetchCatches(e)
    THEN /\ pc' = "fetch_end"
         /\ fetch_status' = "aborted"
         /\ fs' = [fs EXCEPT ![path] = CsvAfterAbort(@, chromatin_data)]
    ELSE /\ pc' = "crashed"     \* the exception leaves fetch
         /\ fetch_status' = "raised"
         /\ UNCHANGED fs

\* fetch is entered with output_csv = path: the gene-set request, raise_for_status,
\* json() and data.get("associations", [])
GeneSetRequest(path, n) ==
    /\ output_csv' = path
    /\ reqs' = << chromatin_remodelers_url >>
    /\ chromatin_data' = << >>
    /\ details' = << >>
    /\ \E r \in ApiOutcomes(GeneSetBodies(n)) :
         LET e == RequestFailure(r) IN
         IF e # ""
         THEN /\ Abort(path, e)
              /\ associations' = << >>
              /\ idx' = 0
         ELSE /\ associations' = DictGet(r.body)
              /\ idx' = 1
              /\ pc' = "fetch_loop"
              /\ fetch_status' = ""
              /\ UNCHANGED fs
    /\ UNCHANGED <<dirs, ip, pre, lastOK, producer, downloadVars>>

\* install_data calls fetch on parsed_factor_data/chromatin_remodelers.csv
InstallFetch ==
    /\ AtStatement("fetch")
    /\ trace' = Append(trace, Program[ip])
    /\ GeneSetRequest(PathOf(Program[ip]), InstallMaxAssoc)

\* fetch called on its own
DirectFetch ==
    /\ pc = "idle"
    /\ UNCHANGED trace
    /\ GeneSetRequest(CsvPath, MaxAssoc)

\* one iteration of the for loop: the gene request, raise_for_status, json(),
\* gene_data.get("synonyms", []) and the append
GeneRequest(lists) ==
    /\ pc = "fetch_loop"
    /\ idx <= Len(associations)
    /\ reqs' = Append(reqs, base_url \o associations[idx].gene.href)
    /\ \E r \in ApiOutcomes(GeneBodies(lists)) :
         LET e == RequestFailure(r) IN
         IF e # ""
         THEN IF GeneFailureAborts
              THEN /\ Abort(output_csv, e)
                   /\ UNCHANGED <<idx, chromatin_data, details>>
              ELSE /\ idx' = idx + 1
                   /\ UNCHANGED <<pc, fs, fetch_status, chromatin_data, details>>
         ELSE /\ chromatin_data' = Append(chromatin_data,
                     Record(associations[idx].gene.symbol, DictGet(r.body)))
              /\ details' = Append(details, r.body)
              /\ idx' = idx + 1
              /\ UNCHANGED <<pc, fs, fetch_status>>
    /\ UNCHANGED <<dirs, pre, output_csv, associations, lastOK, producer,
                   installVars, downloadVars>>

InstallGeneRequest == ip # 0 /\ GeneRequest(InstallSynLists)

DirectGeneRequest == ip = 0 /\ GeneRequest(SynLists)

\* the loop is exhausted: the CSV is opened and written
WriteCsv ==
    /\ pc = "fetch_loop"
    /\ idx > Len(associations)
    /\ fs' = [fs EXCEPT ![output_csv] = OpenWWrite(@, CsvRows(chromatin_data))]
    /\ lastOK' = [lastOK EXCEPT ![output_csv] = fs'[output_csv]]
    /\ fetch_status' = "ok"
    /\ pc' = "fetch_end"
    /\ UNCHANGED <<dirs, pre, producer, output_csv, associations, idx, chromatin_data,
                   details, reqs, installVars, downloadVars>>

\* fetch returns to its caller; its locals are gone
FetchReturn ==
    /\ pc = "fetch_end"
    /\ IF ip = 0
       THEN pc' = "idle" /\ ip' = 0
       ELSE pc' = "install" /\ ip' = ip + 1
    /\ output_csv' = << >>
    /\ associations' = << >>
    /\ idx' = 0
    /\ chromatin_data' = << >>
    /\ details' = << >>
    /\ reqs' = << >>
    /\ fetch_status' = ""
    /\ UNCHANGED <<dirs, fs, trace, pre, lastOK, producer, downloadVars>>

\* install_data has run its last statement
InstallReturn ==
    /\ pc = "install"
    /\ ip > Len(Program)
    /\ pc' = "done"
    /\ ip' = 0
    /\ UNCHANGED <<dirs, fs, trace, pre, lastOK, producer, downloadVars, fetchVars>>

Next ==
    \/ StartInstall
    \/ Makedirs
    \/ DownloadFile
    \/ DownloadReturn
    \/ InstallFetch
    \/ InstallGeneRequest
    \/ WriteCsv
    \/ FetchReturn
    \/ InstallReturn

Spec == Init /\ [][Next]_vars

NextFetch ==
    \/ DirectFetch
    \/ DirectGeneRequest
    \/ WriteCsv
    \/ FetchReturn

FetchSpec == InitFetch /\ [][NextFetch]_vars

----------------------------------------------------------------------------
(* Properties of download_file *)

\* the destination of the download_file call in progress
CurrentPath == PathOf(Program[ip])

InDownload == pc \in {"download_end", "crashed"} /\ response.kind # "none"

\* C1: when the GET of download_file answers 200 with body B, the destination file
\* exists after the call and holds exactly B, whatever was there before.
C1_Status200WritesExactlyBody ==
    (InDownload /\ response.kind = "resp" /\ response.status = 200)
        => /\ pc = "download_end"
           /\ fs[CurrentPath].exists
           /\ fs[CurrentPath].data = response.body

\* a 200 answer has replaced a file that held other content
C1_Witness ==
    /\ pc = "download_end"
    /\ response.kind = "resp" /\ response.status = 200
    /\ pre.exists /\ pre.data # response.body
    /\ fs[CurrentPath].data = response.body

\* C2: an answer with any status other than 200 leaves the destination as it was,
\* and every file present at a download destination was written from a response
\* whose status was exactly 200.
C2_OnlyStatus200Writes ==
    /\ (InDownload /\ response.kind = "resp" /\ response.status # 200)
          => (pc = "download_end" /\ fs[CurrentPath] = pre)
    /\ \A f \in DownloadFiles : fs[f].exists => producer[f] = 200
    /\ \A f \in DownloadFiles : producer[f] \in {0, 200}

\* a 2xx answer other than 200 has left the destination absent
C2_Witness ==
    /\ pc = "download_end"
    /\ response.kind = "resp" /\ response.status \in {201, 204, 206}
    /\ ~pre.exists
    /\ ~fs[CurrentPath].exists

\* C3: when the GET raises a network-level error the destination is left as it was
\* (not created), no exception leaves download_file, and the value the caller gets
\* is the one it gets after a successful download.
C3_NetworkErrorSwallowed ==
    /\ (InDownload /\ response.kind = "exc")
          => /\ pc = "download_end"
             /\ fs[CurrentPath] = pre
             /\ ret = "None"
    /\ (pc = "download_end" /\ response.kind = "resp" /\ response.status = 200)
          => ret = "None"

\* a connection error has been swallowed and no file was created
C3_Witness ==
    /\ pc = "download_end"
    /\ response.kind = "exc" /\ response.exc = "ConnectionError"
    /\ ~pre.exists
    /\ ~fs[CurrentPath].exists
    /\ ret = "None"

----------------------------------------------------------------------------
(* Properties of fetch_chromatin_remodelers_and_synonyms *)

\* the synonym list of the i-th gene response: empty when the key is absent
SynonymsOf(i) == IF details[i].has THEN details[i].val ELSE << >>

\* where the k-th element of list starts in its join with a separator of length 1
RECURSIVE Offset(_, _)
Offset(list, k) == IF k = 1 THEN 0 ELSE Offset(list, k - 1) + Len(list[k - 1]) + 1

\* field is the elements of list in their order, a ", " between neighbours
IsCommaJoined(field, list) ==
    LET n == Len(list) IN
    /\ Len(field) = Offset(list, n) + Len(list[n])
    /\ \A k \in 1..n :
         SubSeq(field, Offset(list, k) + 1, Offset(list, k) + Len(list[k])) = list[k]
    /\ \A k \in 1..(n - 1) : field[Offset(list, k) + Len(list[k]) + 1] = ", "

\* C4: when the gene-set request and every gene request succeed, the CSV is the
\* header row followed by one row per association, in the order of the list; row i
\* holds the symbol of association i, and its synonyms field is empty when the
\* gene's synonym list is empty or absent, else the synonyms joined with ", ".
C4_CsvHasOneRowPerAssociation ==
    (pc = "fetch_end" /\ fetch_status = "ok")
        => LET rows == fs[output_csv].data
               N == Len(associations)
           IN /\ fs[output_csv].exists
              /\ Len(details) = N
              /\ Len(rows) = N + 1
              /\ rows[1] = << <<"chromatin_remodeler">>, <<"synonyms">> >>
              /\ \A i \in 1..N :
                   /\ Len(rows[i + 1]) = 2
                   /\ rows[i + 1][1] = associations[i].gene.symbol
                   /\ IF SynonymsOf(i) = << >>
                      THEN rows[i + 1][2] = << >>
                      ELSE IsCommaJoined(rows[i + 1][2], SynonymsOf(i))

\* a CSV of two genes was written: the first without a synonyms key, the second
\* with two synonyms
C4_Witness ==
    /\ pc = "fetch_end" /\ fetch_status = "ok"
    /\ Len(associations) = 2
    /\ associations[1].gene.symbol # associations[2].gene.symbol
    /\ ~details[1].has
    /\ Len(details[2].val) = 2
    /\ Len(fs[output_csv].data) = 3

\* C5: a fetch call in which the gene-set request or a gene request fails never
\* opens the CSV: no step of the call before the failure, nor the failing step,
\* changes the file system, and the call ends in its caller, not in an exception.
C5_FailedFetchWritesNothing ==
    [][ /\ (pc' = "fetch_loop" \/ (pc' = "fetch_end" /\ fetch_status' = "aborted"))
            => (fs' = fs /\ lastOK' = lastOK)
        /\ pc' # "crashed"
        /\ (pc = "fetch_end" /\ fetch_status = "aborted") => pc' \in {"idle", "install"}
      ]_vars

\* a gene request failed after a row had been gathered, and there is no CSV
C5_Witness ==
    /\ pc = "fetch_end" /\ fetch_status = "aborted"
    /\ Len(associations) = 2
    /\ Len(chromatin_data) = 1
    /\ ~fs[output_csv].exists

\* C9: the requests of one fetch call are the gene-set request, then the detail
\* requests of associations 1, 2, ... in list order; 1+N requests when all succeed,
\* and 1+k when the k-th detail request is the first to fail.
C9_RequestsInListOrderUntilFirstFailure ==
    (pc \in {"fetch_loop", "fetch_end"})
        => /\ Len(reqs) >= 1
           /\ reqs[1] = chromatin_remodelers_url
           /\ Len(reqs) <= 1 + Len(associations)
           /\ \A i \in 2..Len(reqs) : reqs[i] = base_url \o associations[i - 1].gene.href
           /\ pc = "fetch_loop" => Len(reqs) = 1 + Len(details)
           /\ (pc = "fetch_end" /\ fetch_status = "ok")
                 => (Len(reqs) = 1 + Len(associations) /\ Len(details) = Len(associations))
           /\ (pc = "fetch_end" /\ fetch_status = "aborted" /\ idx = 0)
                 => Len(reqs) = 1
           /\ (pc = "fetch_end" /\ fetch_status = "aborted" /\ idx > 0)
                 => Len(reqs) = 1 + Len(details) + 1

\* the first of two detail requests failed and the second was never issued
C9_Witness ==
    /\ pc = "fetch_end" /\ fetch_status = "aborted"
    /\ Len(associations) = 2
    /\ Len(details) = 0
    /\ Len(reqs) = 2

----------------------------------------------------------------------------
(* Properties of install_data *)

\* the order of steps the installer is documented to follow
ExpectedOrder ==
    << <<"makedirs", "unparsed_factor_data", "">>,
       <<"makedirs", "unparsed_ontology_data", "">>,
       <<"makedirs", "parsed_factor_data", "">>,
       <<"makedirs", "parsed_ontology_data", "">>,
       <<"download", "unparsed_factor_data", "gene_info.gz">>,
       <<"download", "unparsed_factor_data", "Homo_sapiens_TF.csv">>,
       <<"fetch", "parsed_factor_data", "chromatin_remodelers.csv">>,
       <<"download", "unparsed_ontology_data", "cellosaurus.txt">>,
       <<"download", "unparsed_ontology_data", "efo.owl">>,
       <<"download", "unparsed_ontology_data", "uberon-full.json">> >>

Label(step) == <<step.op, step.folder, step.filename>>

TraceFollowsExpectedOrder ==
    /\ Len(trace) <= Len(ExpectedOrder)
    /\ \A i \in 1..Len(trace) : Label(trace[i]) = ExpectedOrder[i]

FourDirs == {"unparsed_factor_data", "unparsed_ontology_data",
             "parsed_factor_data", "parsed_ontology_data"}

\* C6: the steps of a run start in the documented order (four directories, two
\* factor downloads, the fetch, three ontology downloads), a step starts only when
\* no call is in progress, and a file changes only while its own step is the
\* latest one started.
C6_StepsInDocumentedOrder ==
    /\ [] TraceFollowsExpectedOrder
    /\ [][ /\ (trace' # trace /\ trace' # << >>)
               => (pc = "install" /\ Len(trace') = Len(trace) + 1)
           /\ \A f \in Files :
                fs'[f] # fs[f]
                   => (trace' # << >> /\ PathOf(trace'[Len(trace')]) = f)
         ]_vars

\* a run has ended after all ten steps, every one of the six files written
C6_Witness ==
    /\ pc = "done"
    /\ Len(trace) = 10
    /\ \A f \in Files : fs[f].exists

\* C7: whatever fails, a run is never cut short: no exception ends it, it can always
\* take its next step until it is done, at its end each of the ten steps was
\* started exactly once, and an operation that succeeds writes its file from its
\* own responses alone.
C7_FailuresDoNotStopTheRun ==
    /\ pc # "crashed"
    /\ pc \notin {"idle", "done"} => ENABLED Next
    /\ pc = "done" =>
          /\ Len(trace) = Len(ExpectedOrder)
          /\ \A i \in 1..Len(trace) : Label(trace[i]) = ExpectedOrder[i]
    /\ (pc = "download_end" /\ response.kind = "resp" /\ response.status = 200)
          => fs[CurrentPath] = Written(response.body)
    /\ (pc = "fetch_end" /\ fetch_status = "ok")
          => /\ fs[output_csv].exists
             /\ Len(fs[output_csv].data) = Len(associations) + 1

\* a run has ended in which the two factor downloads, the fetch and two
\* ontology downloads failed, and the last download succeeded
C7_Witness ==
    /\ pc = "done"
    /\ Len(trace) = 10
    /\ fs[<<"unparsed_ontology_data", "uberon-full.json">>].exists
    /\ \A f \in Files \ {<<"unparsed_ontology_data", "uberon-full.json">>} : ~fs[f].exists

\* C8: creating a directory that already exists raises nothing and changes nothing,
\* the run goes on to its next statement, and once the four makedirs calls of a
\* run are behind, as after every run, all four directories exist.
C8_MakedirsIdempotent ==
    /\ [] /\ pc # "crashed"
          /\ (pc = "done" \/ ip > Cardinality(FourDirs)) => FourDirs \subseteq dirs
          /\ dirs \subseteq FourDirs \cup {"data"}
    /\ [][ (pc = "install" /\ ip \in 1..Cardinality(FourDirs)
               /\ ExpectedOrder[ip][2] \in dirs)
             => (dirs' = dirs /\ pc' = "install" /\ ip' = ip + 1)
         ]_vars

\* a later run, the directories being there already, has reached a download over a
\* file left by an earlier run
C8_Witness ==
    /\ pc = "download_end"
    /\ pre.exists
    /\ FourDirs \subseteq dirs

\* C10: a failed download or an aborted fetch leaves its destination as it was, so
\* every destination file always holds the content of the most recent successful
\* attempt for it, and is absent only if none succeeded.
C10_FilesHoldLastSuccess ==
    /\ \A f \in Files : fs[f] = lastOK[f]
    /\ (pc = "download_end" /\ ~(response.kind = "resp" /\ response.status = 200))
          => fs[CurrentPath] = pre

\* a download failed over a file left by an earlier run, and the file is still there
C10_Witness ==
    /\ pc = "download_end"
    /\ response.kind = "resp" /\ response.status = 404
    /\ pre.exists
    /\ fs[CurrentPath] = pre
    /\ fs[CsvPath].exists

====
